---- MODULE Spec2Model ----
(***************************************************************************)
(* Model of cmd/mdtogo/main.go: the mdtogo generator reads the *.md files  *)
(* of a directory, parses each into a doc{Name, Short, Long, Examples} and *)
(* writes the rendered declarations to DEST/docs.go.                       *)
(*                                                                         *)
(* Text is modelled as a sequence of one-character strings, a file's       *)
(* content as the sequence of lines bufio.Scanner hands out.               *)
(***************************************************************************)
EXTENDS Integers, Sequences, FiniteSets, TLC

VARIABLES args, pc, full, licenseFile, source, dest, files, fi, docs,
          license, readLog, mkdirs, docsGo, writes, exitCode, stderr,
          fname, name, value, scan, rendered

vars == <<args, pc, full, licenseFile, source, dest, files, fi, docs,
          license, readLog, mkdirs, docsGo, writes, exitCode, stderr,
          fname, name, value, scan, rendered>>


(***************************************************************************)
(* Bounds of the model.                                                    *)
(***************************************************************************)
MaxLines == 4
MaxStem == 4
MaxArgs == 3
MaxFiles == 2
MaxFileLines == 2

(***************************************************************************)
(* Characters and lines.                                                   *)
(***************************************************************************)
\* the backtick character, U+0060 (written as a token: the lexer of TLA+
\* gives the character itself a meaning)
BT == "<backtick>"
TAB == "\t"
NL == "\n"

Blank == <<>>
SpaceLine == <<" ">>
H2 == <<"#", "#", " ", "t">>
SynopsisH == <<"#", "#", "#", " ", "S", "y", "n", "o", "p", "s", "i", "s">>
ExamplesH == <<"#", "#", "#", " ", "E", "x", "a", "m", "p", "l", "e", "s">>
OtherH == <<"#", "#", "#", " ", "N">>
Fence == <<BT, BT, BT>>
TickLine == <<"a", BT>>
PlainLine == <<"x">>
PlainLine2 == <<"y">>

\* a line longer than bufio.MaxScanTokenSize: Scan() stops with ErrTooLong
TooLong == <<"<line over 64KiB>">>

H2Prefix == <<"#", "#", " ">>
H3Prefix == <<"#", "#", "#", " ">>
EscSeq == <<BT, " ", "+", " ", "\"", BT, "\"", " ", "+", " ", BT>>

(***************************************************************************)
(* Library functions used by the program.                                  *)
(***************************************************************************)
HasPrefix(s, prefix) ==
    /\ Len(s) >= Len(prefix)
    /\ SubSeq(s, 1, Len(prefix)) = prefix

Drop(s, n) == SubSeq(s, n + 1, Len(s))

\* strings.ReplaceAll: non-overlapping occurrences, left to right; an empty
\* old matches before every character and at the end
RECURSIVE ReplaceAll(_, _, _)
ReplaceAll(s, old, new) ==
    IF Len(old) = 0
    THEN IF Len(s) = 0 THEN new
         ELSE new \o <<Head(s)>> \o ReplaceAll(Tail(s), old, new)
    ELSE IF Len(s) < Len(old) THEN s
    ELSE IF HasPrefix(s, old)
         THEN new \o ReplaceAll(Drop(s, Len(old)), old, new)
         ELSE <<Head(s)>> \o ReplaceAll(Tail(s), old, new)

WhiteSpace == {" ", "\t", "\n", "\r"}

RECURSIVE TrimLeft(_)
TrimLeft(s) ==
    IF Len(s) > 0 /\ Head(s) \in WhiteSpace THEN TrimLeft(Tail(s)) ELSE s

RECURSIVE TrimRight(_)
TrimRight(s) ==
    IF Len(s) > 0 /\ s[Len(s)] \in WhiteSpace
    THEN TrimRight(SubSeq(s, 1, Len(s) - 1)) ELSE s

TrimSpace(s) == TrimRight(TrimLeft(s))

RECURSIVE Join(_, _)
Join(elems, sep) ==
    IF Len(elems) = 0 THEN <<>>
    ELSE IF Len(elems) = 1 THEN elems[1]
    ELSE elems[1] \o sep \o Join(Tail(elems), sep)

\* filepath.Ext: the suffix starting at the last dot, "" without a dot
RECURSIVE ExtFrom(_, _)
ExtFrom(path, i) ==
    IF i < 1 THEN <<>>
    ELSE IF path[i] = "." THEN SubSeq(path, i, Len(path))
    ELSE ExtFrom(path, i - 1)

Ext(path) == ExtFrom(path, Len(path))

Letters == {"a", "b", "d", "m", "A", "B", "D", "M"}

ToTitle(c) ==
    CASE c = "a" -> "A"
      [] c = "b" -> "B"
      [] c = "d" -> "D"
      [] c = "m" -> "M"
      [] OTHER -> c

\* strings.isSeparator: letters, digits and underscore are no separators
isSeparator(c) == c \notin Letters

\* strings.Title: upper-cases every letter that follows a separator
RECURSIVE TitleFrom(_, _)
TitleFrom(s, prev) ==
    IF Len(s) = 0 THEN <<>>
    ELSE <<IF isSeparator(prev) THEN ToTitle(Head(s)) ELSE Head(s)>>
         \o TitleFrom(Tail(s), Head(s))

Title(s) == TitleFrom(s, " ")

MdExt == <<".", "m", "d">>

(***************************************************************************)
(* parse: name derivation (lines 127-129).                                 *)
(***************************************************************************)
StripExt(n) == ReplaceAll(n, Ext(n), <<>>)

RemoveHyphens(n) == ReplaceAll(n, <<"-">>, <<>>)

DeriveName(n) == RemoveHyphens(Title(StripExt(n)))

(***************************************************************************)
(* parse: the line scan (lines 131-188).  The record holds the locals of   *)
(* parse and the position of the scanner (number of lines consumed).       *)
(***************************************************************************)
\* isIndent kept from the scan of the previous document
ParseInitKeepIndent ==
    [pos |-> 0, short |-> <<>>, long |-> <<>>, examples |-> <<>>,
     isLong |-> FALSE, isExample |-> FALSE, isIndent |-> scan.isIndent]

ParseInit ==
    [pos |-> 0, short |-> <<>>, long |-> <<>>, examples |-> <<>>,
     isLong |-> FALSE, isExample |-> FALSE, isIndent |-> FALSE]

\* scanner.Scan() delivers a line
ScanOK(val, p) == p < Len(val) /\ val[p + 1] # TooLong

\* scanner.Err() after the loop
ScanErr(val, p) == p < Len(val) /\ val[p + 1] = TooLong

\* CaptureShort without the skipping of blank lines (lines 143-145 missing)
CaptureShortNoSkip(val, p) ==
    IF p < Len(val) /\ val[p + 1] # TooLong
    THEN [pos |-> p + 1, short |-> val[p + 1]]
    ELSE [pos |-> p, short |-> <<>>]

\* the inner loop of lines 142-148, started with p lines consumed
RECURSIVE CaptureShort(_, _)
CaptureShort(val, p) ==
    IF ~ScanOK(val, p) THEN [pos |-> p, short |-> <<>>]
    ELSE IF TrimSpace(val[p + 1]) = <<>> THEN CaptureShort(val, p + 1)
    ELSE [pos |-> p + 1, short |-> val[p + 1]]

Escape(line) == ReplaceAll(line, <<BT>>, EscSeq)

\* Indent with the test of line 177 inverted
IndentInverted(line, isIndent) == IF isIndent THEN line ELSE <<TAB>> \o line

Indent(line, isIndent) == IF isIndent THEN <<TAB>> \o line ELSE line

Stored(line, isIndent) == Indent(Escape(line), isIndent)

\* the test of line 181 without "|| full"
CollectsLongNoFull(st, f) == st.isLong

CollectsLong(st, f) == st.isLong \/ f

\* OnSynopsis without line 155
OnSynopsisKeep(st) == [st EXCEPT !.isLong = TRUE]

\* lines 153-157, 159-163, 165-169: the three kinds of level-3 heading
OnSynopsis(st) == [st EXCEPT !.isLong = TRUE, !.isExample = FALSE]

OnExamples(st) == [st EXCEPT !.isLong = FALSE, !.isExample = TRUE]

OnOtherHeading(st) == [st EXCEPT !.isLong = FALSE, !.isExample = FALSE]

\* one iteration of the loop of line 138, the scanner delivering a line
LoopBody(st, val, f) ==
    LET line == val[st.pos + 1]
        s1 == [st EXCEPT !.pos = st.pos + 1]
    IN  IF HasPrefix(line, H2Prefix) /\ st.short = <<>>
        THEN LET c == CaptureShort(val, s1.pos)
             IN  [s1 EXCEPT !.pos = c.pos, !.short = c.short]
        ELSE IF ~f /\ HasPrefix(line, SynopsisH)
        THEN OnSynopsis(s1)
        ELSE IF ~f /\ HasPrefix(line, ExamplesH)
        THEN OnExamples(s1)
        ELSE IF ~f /\ HasPrefix(line, H3Prefix)
        THEN OnOtherHeading(s1)
        ELSE IF HasPrefix(line, Fence)
        THEN [s1 EXCEPT !.isIndent = ~st.isIndent]
        ELSE IF CollectsLong(st, f)
        THEN [s1 EXCEPT !.long = Append(st.long, Stored(line, st.isIndent))]
        ELSE IF st.isExample
        THEN [s1 EXCEPT !.examples =
                            Append(st.examples, Stored(line, st.isIndent))]
        ELSE s1

\* lines 190-193
MakeDoc(n, st) ==
    [Name |-> n, Short |-> st.short,
     Long |-> Join(st.long, <<NL>>), Examples |-> Join(st.examples, <<NL>>)]

(***************************************************************************)
(* doc.String (lines 209-226).                                             *)
(***************************************************************************)
VarKw == <<"v", "a", "r", " ">>
ShortSfx == <<"S", "h", "o", "r", "t">>
LongSfx == <<"L", "o", "n", "g">>
ExamplesSfx == <<"E", "x", "a", "m", "p", "l", "e", "s">>

Decl(n, sfx, text) == VarKw \o n \o sfx \o <<"=", BT>> \o text \o <<BT>>

EmitShort(d) == d.Short # <<>>

\* the declaration of Long emitted without the test of line 216
EmitAlways(d) == TRUE

EmitLong(d) == d.Long # <<>>
EmitExamples(d) == d.Examples # <<>>

DocParts(d) ==
    (IF EmitShort(d) THEN <<Decl(d.Name, ShortSfx, d.Short)>> ELSE <<>>)
    \o (IF EmitLong(d) THEN <<Decl(d.Name, LongSfx, d.Long)>> ELSE <<>>)
    \o (IF EmitExamples(d)
        THEN <<Decl(d.Name, ExamplesSfx, d.Examples)>> ELSE <<>>)

DocString(d) == Join(DocParts(d), <<NL>>) \o <<NL>>

(***************************************************************************)
(* Inputs: command lines, directory listings, file contents.               *)
(***************************************************************************)
SeqsUpTo(S, n) == UNION {[1..k -> S] : k \in 0..n}

Prog == <<"m", "d", "t", "o", "g", "o">>
SrcArg == <<"s">>
DstArg == <<"d">>
FullArg == <<"-", "-", "f", "u", "l", "l", "=", "t", "r", "u", "e">>
LicensePrefix == <<"-", "-", "l", "i", "c", "e", "n", "s", "e", "=">>
None == <<"n", "o", "n", "e">>
LicPath == <<"l">>
LicNoneArg == LicensePrefix \o None
LicPathArg == LicensePrefix \o LicPath

ArgSet == {SrcArg, DstArg, FullArg, LicNoneArg, LicPathArg}

\* os.Args: the program name followed by the arguments
ArgLists == {<<Prog>> \o a : a \in SeqsUpTo(ArgSet, MaxArgs)}

FileA == <<"a", ".", "m", "d">>
FileB == <<"b", "-", "a", ".", "m", "d">>
FileTxt == <<"n", ".", "g", "o">>
FileOrder == <<FileA, FileB, FileTxt>>

\* os.ReadDir returns the entries sorted by filename
Listings ==
    {l \in SeqsUpTo(1..Len(FileOrder), MaxFiles) :
        \A i \in 1..(Len(l) - 1) : l[i] < l[i + 1]}

ListingNames(l) == [i \in 1..Len(l) |-> FileOrder[l[i]]]

FileLineSet == {Fence, PlainLine, TooLong}
FileContents == SeqsUpTo(FileLineSet, MaxFileLines)

LicenseText == <<"/", "/", " ", "L">>

Usage == "Usage: mdtogo SOURCE_MD_DIR/ DEST_GO_DIR/"
NoFile == "no file"

(***************************************************************************)
(* main, lines 54-68: the flags, the usage check, source and dest.         *)
(***************************************************************************)
RECURSIVE FlagScan(_, _, _)
FlagScan(as, f, lic) ==
    IF Len(as) = 0 THEN [full |-> f, licenseFile |-> lic]
    ELSE LET a == Head(as)
         IN  FlagScan(Tail(as),
                      IF a = FullArg THEN TRUE ELSE f,
                      IF HasPrefix(a, LicensePrefix)
                      THEN ReplaceAll(a, LicensePrefix, <<>>) ELSE lic)

TooFewArgs(as) == Len(as) < 3
\* source taken one place too early (os.Args[0], the program name)
SourceOfProg(as) == as[1]

SourceOf(as) == as[2]
DestOf(as) == as[3]

ReadArgs ==
    /\ pc = "start"
    /\ LET fl == FlagScan(args, full, licenseFile)
       IN  /\ full' = fl.full
           /\ licenseFile' = fl.licenseFile
    /\ IF TooFewArgs(args)
       THEN /\ stderr' = Usage
            /\ exitCode' = 1
            /\ pc' = "exit"
            /\ UNCHANGED <<source, dest>>
       ELSE /\ source' = SourceOf(args)
            /\ dest' = DestOf(args)
            /\ pc' = "readdir"
            /\ UNCHANGED <<stderr, exitCode>>
    /\ UNCHANGED <<args, files, fi, docs, license, readLog, mkdirs, docsGo,
                   writes, fname, name, value, scan, rendered>>

(***************************************************************************)
(* main, lines 70-74: os.ReadDir(source).                                  *)
(***************************************************************************)
ReadDir ==
    /\ pc = "readdir"
    /\ \/ /\ stderr' = "readdir error"
          /\ exitCode' = 1
          /\ pc' = "exit"
          /\ UNCHANGED <<files, fi>>
       \/ /\ \E l \in Listings : files' = ListingNames(l)
          /\ fi' = 1
          /\ pc' = "files"
          /\ UNCHANGED <<stderr, exitCode>>
    /\ readLog' = Append(readLog, [file |-> source, ok |-> pc' = "files"])
    /\ UNCHANGED <<args, full, licenseFile, source, dest, docs, license,
                   mkdirs, docsGo, writes, fname, name, value, scan,
                   rendered>>

(***************************************************************************)
(* main, lines 77-88: the loop over the directory entries.                 *)
(***************************************************************************)
IsMd(f) == Ext(f) = MdExt

SkipFile ==
    /\ pc = "files"
    /\ fi <= Len(files)
    /\ ~IsMd(files[fi])
    /\ fi' = fi + 1
    /\ UNCHANGED <<args, pc, full, licenseFile, source, dest, files, docs,
                   license, readLog, mkdirs, docsGo, writes, exitCode, stderr,
                   fname, name, value, scan, rendered>>

\* the read error reported without os.Exit(1): the loop goes on
AfterReadErrorGoOn == "files"

\* where main is after a failed os.ReadFile of an input (lines 82-85)
AfterReadError == "exit"

\* os.ReadFile of the entry and the entry of parse (lines 81-87, 126-136)
ReadFile ==
    /\ pc = "files"
    /\ fi <= Len(files)
    /\ IsMd(files[fi])
    /\ \/ /\ stderr' = "read error"
          /\ exitCode' = 1
          /\ pc' = AfterReadError
          /\ fi' = IF AfterReadError = "exit" THEN fi ELSE fi + 1
          /\ UNCHANGED <<fname, name, value, scan>>
       \/ /\ \E c \in FileContents : value' = c
          /\ fname' = files[fi]
          /\ name' = DeriveName(files[fi])
          /\ scan' = ParseInit
          /\ pc' = "scan"
          /\ UNCHANGED <<stderr, exitCode, fi>>
    /\ readLog' = Append(readLog, [file |-> files[fi], ok |-> pc' = "scan"])
    /\ UNCHANGED <<args, full, licenseFile, source, dest, files, docs,
                   license, mkdirs, docsGo, writes, rendered>>

\* one iteration of the scan loop (lines 138-188)
ScanLine ==
    /\ pc = "scan"
    /\ ScanOK(value, scan.pos)
    /\ scan' = LoopBody(scan, value, full)
    /\ UNCHANGED <<args, pc, full, licenseFile, source, dest, files, fi, docs,
                   license, readLog, mkdirs, docsGo, writes, exitCode, stderr,
                   fname, name, value, rendered>>

\* the end of parse (lines 190-199) and docs = append(docs, ...) (line 87)
ParseEnd ==
    /\ pc = "scan"
    /\ ~ScanOK(value, scan.pos)
    /\ IF ScanErr(value, scan.pos)
       THEN /\ stderr' = "scan error"
            /\ exitCode' = 1
            /\ pc' = "exit"
            /\ UNCHANGED <<docs, fi>>
       ELSE /\ docs' = Append(docs, MakeDoc(name, scan))
            /\ fi' = fi + 1
            /\ pc' = "files"
            /\ UNCHANGED <<stderr, exitCode>>
    /\ UNCHANGED <<args, full, licenseFile, source, dest, files, license,
                   readLog, mkdirs, docsGo, writes, fname, name, value, scan,
                   rendered>>

(***************************************************************************)
(* main, lines 90-104: the license header.                                 *)
(***************************************************************************)
DefaultLicense ==
    <<"// Copyright 2019 The Kubernetes Authors.", NL,
      "// SPDX-License-Identifier: Apache-2.0">>

ResolveLicense ==
    /\ pc = "files"
    /\ fi > Len(files)
    /\ IF licenseFile = <<>>
       THEN /\ license' = DefaultLicense
            /\ pc' = "emit"
            /\ UNCHANGED <<stderr, exitCode, readLog>>
       ELSE IF licenseFile = None
       THEN /\ license' = <<>>
            /\ pc' = "emit"
            /\ UNCHANGED <<stderr, exitCode, readLog>>
       ELSE /\ \/ /\ stderr' = "read error"
                  /\ exitCode' = 1
                  /\ pc' = "exit"
                  /\ UNCHANGED license
               \/ /\ license' = LicenseText
                  /\ pc' = "emit"
                  /\ UNCHANGED <<stderr, exitCode>>
            /\ readLog' =
                   Append(readLog, [file |-> licenseFile, ok |-> pc' = "emit"])
    /\ UNCHANGED <<args, full, licenseFile, source, dest, files, fi, docs,
                   mkdirs, docsGo, writes, fname, name, value, scan, rendered>>

(***************************************************************************)
(* main, lines 106-123: rendering, os.Stat/os.Mkdir and os.WriteFile.      *)
(***************************************************************************)
RECURSIVE TrimSlashes(_)
TrimSlashes(path) ==
    IF Len(path) > 0 /\ path[Len(path)] = "/"
    THEN TrimSlashes(SubSeq(path, 1, Len(path) - 1)) ELSE path

RECURSIVE LastElem(_, _)
LastElem(path, i) ==
    IF i < 1 THEN path
    ELSE IF path[i] = "/" THEN SubSeq(path, i + 1, Len(path))
    ELSE LastElem(path, i - 1)

\* filepath.Base
Base(path) ==
    IF Len(path) = 0 THEN <<".">>
    ELSE LET t == TrimSlashes(path)
         IN  IF Len(t) = 0 THEN <<"/">> ELSE LastElem(t, Len(t))

Header(d) ==
    <<NL, "// Code generated by \"mdtogo\"; DO NOT EDIT.", NL, "package ">>
    \o Base(d) \o <<NL>>

RenderAll(ds) == [i \in 1..Len(ds) |-> DocString(ds[i])]

Output(lic, d, ds) == Join(<<lic, Header(d)>> \o RenderAll(ds), <<NL>>)

Emit ==
    /\ pc = "emit"
    /\ rendered' = RenderAll(docs)
    /\ \E exists \in BOOLEAN, mkdirOK \in BOOLEAN, writeOK \in BOOLEAN :
          /\ mkdirs' = IF exists THEN mkdirs ELSE mkdirs + 1
          /\ writes' = writes + 1
          /\ IF writeOK /\ (exists \/ mkdirOK)
             THEN /\ docsGo' = Output(license, dest, docs)
                  /\ exitCode' = 0
                  /\ pc' = "done"
                  /\ UNCHANGED stderr
             ELSE /\ stderr' = "write error"
                  /\ exitCode' = 1
                  /\ pc' = "exit"
                  /\ UNCHANGED docsGo
    /\ UNCHANGED <<args, full, licenseFile, source, dest, files, fi, docs,
                   license, readLog, fname, name, value, scan>>

(***************************************************************************)
(* The run of main.                                                        *)
(***************************************************************************)
\* the locals of parse before parse was ever called
NoScan ==
    [pos |-> 0, short |-> <<>>, long |-> <<>>, examples |-> <<>>,
     isLong |-> FALSE, isExample |-> FALSE, isIndent |-> FALSE]

Blank0 ==
    /\ full = FALSE
    /\ licenseFile = <<>>
    /\ source = <<>>
    /\ dest = <<>>
    /\ files = <<>>
    /\ fi = 0
    /\ docs = <<>>
    /\ license = <<>>
    /\ readLog = <<>>
    /\ mkdirs = 0
    /\ docsGo = NoFile
    /\ writes = 0
    /\ exitCode = -1
    /\ stderr = ""
    /\ value = <<>>
    /\ scan = NoScan
    /\ rendered = <<>>

Init ==
    /\ args \in ArgLists
    /\ pc = "start"
    /\ fname = <<>>
    /\ name = <<>>
    /\ Blank0

Next ==
    \/ ReadArgs
    \/ ReadDir
    \/ SkipFile
    \/ ReadFile
    \/ ScanLine
    \/ ParseEnd
    \/ ResolveLicense
    \/ Emit

Spec == Init /\ [][Next]_vars

(***************************************************************************)
(* parse on one document: the run of main from the call of parse for the   *)
(* only entry of the directory, over a larger set of documents.            *)
(***************************************************************************)
LineSet ==
    {Blank, SpaceLine, H2, SynopsisH, ExamplesH, OtherH, Fence, TickLine}
TextLines == {PlainLine, PlainLine2, TickLine}

Shaped(S, L, E) ==
    <<H2, Blank, S, Blank, SynopsisH, Blank, L, Blank, ExamplesH, Blank, E>>

ShapedDocs == {Shaped(S, L, E) : S \in TextLines, L \in TextLines,
                                 E \in TextLines}

Documents == SeqsUpTo(LineSet, MaxLines) \cup ShapedDocs

InitParse ==
    /\ full \in BOOLEAN
    /\ args = <<Prog, SrcArg, DstArg>> \o (IF full THEN <<FullArg>> ELSE <<>>)
    /\ pc = "scan"
    /\ licenseFile = <<>>
    /\ source = SrcArg
    /\ dest = DstArg
    /\ files = <<FileB>>
    /\ fi = 1
    /\ docs = <<>>
    /\ license = <<>>
    /\ readLog = <<[file |-> SrcArg, ok |-> TRUE],
                    [file |-> FileB, ok |-> TRUE]>>
    /\ mkdirs = 0
    /\ docsGo = NoFile
    /\ writes = 0
    /\ exitCode = -1
    /\ stderr = ""
    /\ fname = FileB
    /\ name = DeriveName(FileB)
    /\ value \in Documents
    /\ scan = NoScan
    /\ rendered = <<>>

NextParse ==
    \/ ScanLine
    \/ ParseEnd
    \/ ResolveLicense
    \/ Emit

SpecParse == InitParse /\ [][NextParse]_vars

(***************************************************************************)
(* The name derivation of parse, statement by statement (lines 127-129).   *)
(***************************************************************************)
NameChars == {"a", "-", ".", "m", "d"}
FileNames == {stem \o MdExt : stem \in SeqsUpTo(NameChars, MaxStem)}

InitName ==
    /\ fname \in FileNames
    /\ name = fname
    /\ pc = "line127"
    /\ args = <<Prog>>
    /\ Blank0

StripExtStep ==
    /\ pc = "line127"
    /\ name' = StripExt(name)
    /\ pc' = "line128"
    /\ UNCHANGED <<args, full, licenseFile, source, dest, files, fi, docs,
                   license, readLog, mkdirs, docsGo, writes, exitCode, stderr,
                   fname, value, scan, rendered>>

TitleStep ==
    /\ pc = "line128"
    /\ name' = Title(name)
    /\ pc' = "line129"
    /\ UNCHANGED <<args, full, licenseFile, source, dest, files, fi, docs,
                   license, readLog, mkdirs, docsGo, writes, exitCode, stderr,
                   fname, value, scan, rendered>>

HyphenStep ==
    /\ pc = "line129"
    /\ name' = RemoveHyphens(name)
    /\ pc' = "named"
    /\ UNCHANGED <<args, full, licenseFile, source, dest, files, fi, docs,
                   license, readLog, mkdirs, docsGo, writes, exitCode, stderr,
                   fname, value, scan, rendered>>

NextName ==
    \/ StripExtStep
    \/ TitleStep
    \/ HyphenStep

SpecName == InitName /\ [][NextName]_vars

(***************************************************************************)
(* Properties.                                                             *)
(***************************************************************************)
Range(s) == {s[i] : i \in 1..Len(s)}

\* the escaped form of a text, character by character
RECURSIVE EscapedText(_)
EscapedText(t) ==
    IF Len(t) = 0 THEN <<>>
    ELSE (IF Head(t) = BT THEN EscSeq ELSE <<Head(t)>>)
         \o EscapedText(Tail(t))

\* under SpecParse: parse has returned the document
ParsedOne == pc # "scan" /\ Len(docs) = 1

ShapedCase == ParsedOne /\ ~full /\ value \in ShapedDocs

\* C1, as stated: for a document of the shape "## title", blank, S, blank,
\* "### Synopsis", blank, L, blank, "### Examples", blank, E, parse in
\* non-full mode returns Short = S, Long = L and Examples = E exactly.
C1_Original ==
    ShapedCase =>
        /\ docs[1].Short = value[3]
        /\ docs[1].Long = value[7]
        /\ docs[1].Examples = value[11]

\* C1, amended: for such a document parse returns Short = S, Long = the
\* blank line after "### Synopsis", L and the blank line before
\* "### Examples" joined by newlines ("\n" + L + "\n"), and Examples =
\* "\n" + E, the backticks of L and E escaped.
C1_Amended ==
    ShapedCase =>
        /\ docs[1].Short = value[3]
        /\ docs[1].Long = <<NL>> \o EscapedText(value[7]) \o <<NL>>
        /\ docs[1].Examples = <<NL>> \o EscapedText(value[11])

C1_Witness == ShapedCase /\ value[7] = TickLine /\ value[3] = PlainLine

\* C2, as stated: no backtick of an input line reaches an emitted field
\* (Short, Long or Examples) unescaped: with the escape sequences taken out,
\* the text placed between the raw-string delimiters holds no backtick.
C2_Claim ==
    ParsedOne =>
        \A text \in {docs[1].Short, docs[1].Long, docs[1].Examples} :
            BT \notin Range(ReplaceAll(text, EscSeq, <<>>))

\* an iteration of the scan loop appends e to Long or to Examples
Appends(e) ==
    \/ scan'.long = Append(scan.long, e) /\ scan'.examples = scan.examples
    \/ scan'.examples = Append(scan.examples, e) /\ scan'.long = scan.long

AppendsNothing == scan'.long = scan.long /\ scan'.examples = scan.examples

Collected(st) == Range(st.long) \cup Range(st.examples)

FenceStored(e) ==
    \/ HasPrefix(e, Fence)
    \/ HasPrefix(e, EscapedText(Fence))
    \/ HasPrefix(e, <<TAB>> \o EscapedText(Fence))

\* every line appended by a step of the scan is the escaped line of that
\* iteration, with one tab in front exactly when the fence is open
TabStep ==
    (pc = "scan" /\ scan' # scan) =>
        LET line == value[scan.pos + 1]
        IN  \/ AppendsNothing
            \/ /\ ~HasPrefix(line, Fence)
               /\ Appends((IF scan.isIndent THEN <<TAB>> ELSE <<>>)
                              \o EscapedText(line))

\* C3, as stated: no line starting with three backticks appears in Short,
\* Long or Examples, and a collected line is stored with exactly one tab in
\* front when the fence is open and with none when it is closed.
C3_Original ==
    [][/\ TabStep
       /\ ~HasPrefix(scan'.short, Fence)
       /\ \A e \in Collected(scan') : ~FenceStored(e)]_vars

\* C3, amended: no line starting with three backticks appears in Long or
\* Examples (it becomes Short, verbatim, when it is the first non-blank line
\* after the first "## " heading), and a line collected into Long or
\* Examples is stored with exactly one tab in front when the fence is open
\* and with none when it is closed.
C3_Amended ==
    [][/\ TabStep
       /\ \A e \in Collected(scan') : ~FenceStored(e)]_vars

C3_Witness ==
    /\ pc = "scan"
    /\ scan.isIndent
    /\ \E e \in Collected(scan) : HasPrefix(e, <<TAB>>)
    /\ \E e \in Collected(scan) : ~HasPrefix(e, <<TAB>>)

(***************************************************************************)
(* The lines of a document, described without the scan.                    *)
(***************************************************************************)
NonBlank(l) == \E c \in Range(l) : c \notin WhiteSpace

Min(S) == CHOOSE x \in S : \A y \in S : x <= y

H2Lines(val) == {i \in 1..Len(val) : HasPrefix(val[i], H2Prefix)}

\* the first "## " line, 0 without one
FirstH2(val) == IF H2Lines(val) = {} THEN 0 ELSE Min(H2Lines(val))

ShortCandidates(val) ==
    {j \in 1..Len(val) : FirstH2(val) > 0 /\ j > FirstH2(val)
                         /\ NonBlank(val[j])}

\* the short-description line, 0 without one
ShortIdx(val) ==
    IF ShortCandidates(val) = {} THEN 0 ELSE Min(ShortCandidates(val))

ExpectedShort(val) == IF ShortIdx(val) = 0 THEN <<>> ELSE val[ShortIdx(val)]

\* the "## " line h, the blank lines after it and the short-description
\* line s (all the lines from h on when there is none, s = 0)
Taken(i, h, s) == h > 0 /\ i >= h /\ (s = 0 \/ i <= s)

IsFence(val, i) == HasPrefix(val[i], Fence)

\* full mode: every line but those taken for Short and the fence lines,
\* escaped, and with a tab in front after an odd number of fence lines
RECURSIVE FullLines(_, _, _, _, _)
FullLines(val, i, h, s, open) ==
    IF i > Len(val) THEN <<>>
    ELSE IF Taken(i, h, s) THEN FullLines(val, i + 1, h, s, open)
    ELSE IF IsFence(val, i) THEN FullLines(val, i + 1, h, s, ~open)
    ELSE <<(IF open THEN <<TAB>> ELSE <<>>) \o EscapedText(val[i])>>
         \o FullLines(val, i + 1, h, s, open)

ExpectedFullLong(val) ==
    Join(FullLines(val, 1, FirstH2(val), ShortIdx(val), FALSE), <<NL>>)

AppearsInLong(l) ==
    \E e \in Range(scan.long) :
        e \in {l, EscapedText(l), <<TAB>> \o EscapedText(l)}

\* C4, as stated: in full mode Short is what it is in non-full mode,
\* Examples is empty and Long contains every line from the
\* short-description line onward (read as: every line after it),
\* "### " headings included.
C4_Original ==
    ParsedOne =>
        /\ docs[1].Short = ExpectedShort(value)
        /\ full =>
              /\ docs[1].Examples = <<>>
              /\ \A i \in 1..Len(value) :
                     (ShortIdx(value) > 0 /\ i > ShortIdx(value))
                         => AppearsInLong(value[i])

\* C4, amended: in full mode Short is what it is in non-full mode, Examples
\* is empty, and Long is made of every line of the document, those before
\* the "## " heading included and "### " headings kept as text, except the
\* lines taken for Short (the first "## " line, the blank lines after it,
\* the short-description line) and the fence lines; each line is stored
\* escaped and, inside a fence, with a tab in front.
C4_Amended ==
    ParsedOne =>
        /\ docs[1].Short = ExpectedShort(value)
        /\ full =>
              /\ docs[1].Examples = <<>>
              /\ docs[1].Long = ExpectedFullLong(value)

C4_Witness ==
    /\ ParsedOne
    /\ full
    /\ FirstH2(value) > 1
    /\ ShortIdx(value) > 0
    /\ \E i \in 1..Len(value) :
           i > ShortIdx(value) /\ HasPrefix(value[i], H3Prefix)
    /\ docs[1].Long # <<>>

(***************************************************************************)
(* Rendering.                                                              *)
(***************************************************************************)
Occurrences(text, sub) ==
    {i \in 1..(Len(text) - Len(sub) + 1) :
        SubSeq(text, i, i + Len(sub) - 1) = sub}

DeclHead(n, sfx) == <<"v", "a", "r", " ">> \o n \o sfx \o <<"=", BT>>

NonEmptyFields(d) ==
    {f \in {"Short", "Long", "Examples"} : d[f] # <<>>}

Declares(text, d, f) ==
    Occurrences(text,
                DeclHead(d.Name, CASE f = "Short" -> ShortSfx
                                   [] f = "Long" -> LongSfx
                                   [] f = "Examples" -> ExamplesSfx)) # {}

\* C6: the rendering of a document holds the declaration of Short, Long or
\* Examples exactly when that field is not empty, and a document without a
\* line starting with "## " has an empty Short and no Short declaration.
C6_Rendering ==
    /\ writes > 0 =>
          \A i \in 1..Len(docs) :
              /\ Len(rendered) = Len(docs)
              /\ \A f \in {"Short", "Long", "Examples"} :
                     Declares(rendered[i], docs[i], f) <=> docs[i][f] # <<>>
              /\ Cardinality(Occurrences(rendered[i], <<"v", "a", "r", " ">>))
                     = Cardinality(NonEmptyFields(docs[i]))
    /\ (ParsedOne /\ H2Lines(value) = {}) =>
          /\ docs[1].Short = <<>>
          /\ writes > 0 => ~Declares(rendered[1], docs[1], "Short")

C6_Witness ==
    /\ writes > 0
    /\ ParsedOne
    /\ H2Lines(value) = {}
    /\ docs[1].Long = <<>>
    /\ docs[1].Examples # <<>>

(***************************************************************************)
(* The collecting modes.                                                   *)
(***************************************************************************)
IsSynopsis(l) == HasPrefix(l, SynopsisH)
IsExamples(l) == HasPrefix(l, ExamplesH)
IsOtherHeading(l) == HasPrefix(l, H3Prefix) /\ ~IsSynopsis(l) /\ ~IsExamples(l)

\* what the claim says of a "### " line l once the scan has passed it
ModeAfter(l) ==
    /\ ~(scan'.isLong /\ scan'.isExample)
    /\ IsSynopsis(l) => scan'.isLong /\ ~scan'.isExample
    /\ IsExamples(l) => ~scan'.isLong /\ scan'.isExample
    /\ IsOtherHeading(l) => ~scan'.isLong /\ ~scan'.isExample

Discards ==
    /\ (~scan.isLong /\ ~scan.isExample) => AppendsNothing
    /\ scan'.long = scan.long \/ scan'.examples = scan.examples

ScanStep == pc = "scan" /\ ~full /\ scan' # scan

\* C9, as stated: in non-full mode the two collecting modes are never both
\* active, "### Synopsis" leaves exactly collecting-long active,
\* "### Examples" exactly collecting-examples, any other "### " line
\* neither, lines are discarded while neither is active, and a heading line
\* is never put into a field.
C9_Original ==
    [][ScanStep =>
          /\ \A i \in (scan.pos + 1)..scan'.pos :
                 HasPrefix(value[i], H3Prefix) =>
                     /\ ModeAfter(value[i])
                     /\ scan'.short # value[i]
                     /\ AppendsNothing
          /\ ModeAfter(value[scan.pos + 1])
          /\ Discards]_vars

\* C9, amended: the same for every "### " line that an iteration of the
\* scan loop handles, that is every one but a "### " line that is the first
\* non-blank line after the first "## " heading: that line becomes Short,
\* verbatim, and switches no mode.
C9_Amended ==
    [][ScanStep =>
          LET line == value[scan.pos + 1]
          IN  /\ ModeAfter(line)
              /\ HasPrefix(line, H3Prefix) =>
                     AppendsNothing /\ scan'.short = scan.short
              /\ Discards]_vars

C9_Witness ==
    /\ ~full
    /\ pc = "scan"
    /\ scan.pos > 1
    /\ IsOtherHeading(value[scan.pos])
    /\ IsExamples(value[1])
    /\ scan.examples # <<>>
    /\ ~scan.isLong /\ ~scan.isExample

(***************************************************************************)
(* The command line.                                                       *)
(***************************************************************************)
IsFlag(a) == a = FullArg \/ HasPrefix(a, LicensePrefix)

Positionals(as) == SelectSeq(Tail(as), LAMBDA a : ~IsFlag(a))

UsageExit == pc = "exit" /\ stderr = Usage

Untouched == mkdirs = 0 /\ writes = 0 /\ docsGo = NoFile

\* C5, as stated: source and dest are the first two arguments that are not
\* flags, wherever the flags stand, and the tool stops with the usage
\* message, non-zero, nothing read or written, exactly when there are fewer
\* than two such arguments.
C5_Original ==
    pc # "start" =>
        /\ UsageExit <=> Len(Positionals(args)) < 2
        /\ UsageExit => exitCode = 1 /\ readLog = <<>> /\ Untouched
        /\ (~UsageExit /\ Len(Positionals(args)) >= 2) =>
               /\ source = Positionals(args)[1]
               /\ dest = Positionals(args)[2]

\* C5, amended: source and dest are the first two arguments after the
\* program name, flags or not, and the tool stops with the usage message,
\* non-zero, nothing read or written, exactly when there are fewer than two
\* arguments of any kind.
C5_Amended ==
    pc # "start" =>
        /\ UsageExit <=> Len(Tail(args)) < 2
        /\ UsageExit => exitCode = 1 /\ readLog = <<>> /\ Untouched
        /\ ~UsageExit =>
               /\ source = Tail(args)[1]
               /\ dest = Tail(args)[2]

C5_Witness ==
    /\ pc = "readdir"
    /\ IsFlag(source)
    /\ Len(Positionals(args)) = 2
    /\ dest = Positionals(args)[1]

(***************************************************************************)
(* The order of the reads and the write.                                   *)
(***************************************************************************)
MdEntries == {i \in 1..Len(files) : IsMd(files[i])}

ReadFiles == {readLog[i].file : i \in 1..Len(readLog)}

LicenseRead ==
    IF licenseFile = <<>> THEN license = DefaultLicense
    ELSE IF licenseFile = None THEN license = <<>>
    ELSE /\ readLog[Len(readLog)] = [file |-> licenseFile, ok |-> TRUE]
         /\ license = LicenseText

\* C8: docs.go is written at most once; the write and the Mkdir come only
\* after the listing, the read and parse of every .md entry and the license
\* have succeeded; a failure of one of these exits non-zero with the
\* destination untouched, and nothing is read after the first failure.
C8_WriteLast ==
    /\ writes <= 1 /\ mkdirs <= 1
    /\ ~Untouched =>
          /\ pc \in {"done", "exit"}
          /\ \A i \in 1..Len(readLog) : readLog[i].ok
          /\ readLog # <<>> /\ readLog[1].file = source
          /\ \A i \in MdEntries : files[i] \in ReadFiles
          /\ Len(docs) = Cardinality(MdEntries)
          /\ LicenseRead
    /\ \A i \in 1..(Len(readLog) - 1) : readLog[i].ok
    /\ pc = "exit" => exitCode = 1
    /\ (pc = "exit" /\ stderr # "write error") => Untouched
    /\ pc = "done" => exitCode = 0 /\ writes = 1 /\ docsGo # NoFile
    /\ stderr = "scan error" =>
          pc = "exit" /\ readLog[Len(readLog)].file = fname

C8_Witness ==
    /\ pc = "done"
    /\ writes = 1
    /\ Len(docs) = 2
    /\ licenseFile = LicPath
    /\ Len(readLog) = 4

(***************************************************************************)
(* The parse state is per document.                                        *)
(***************************************************************************)
Fresh(st) ==
    /\ st.pos = 0
    /\ st.short = <<>> /\ st.long = <<>> /\ st.examples = <<>>
    /\ ~st.isLong /\ ~st.isExample /\ ~st.isIndent

NoForeignTab(val, st) ==
    (\A i \in 1..st.pos : ~HasPrefix(val[i], Fence)) =>
        \A e \in Collected(st) : ~HasPrefix(e, <<TAB>>)

\* C10: the scan of every document starts with inside-code-block off, no
\* collecting mode active and no short description, whatever the state the
\* scan of the previous document ended in, and a document gets no tab in
\* front of a line before a fence line of its own.
C10_PerDocument ==
    [][/\ (pc = "files" /\ pc' = "scan") => Fresh(scan')
       /\ pc' = "scan" => NoForeignTab(value', scan')]_vars

C10_Witness ==
    /\ pc = "files"
    /\ Len(docs) >= 1
    /\ scan.isIndent
    /\ scan.long # <<>>
    /\ fi <= Len(files)
    /\ IsMd(files[fi])

(***************************************************************************)
(* The name.                                                               *)
(***************************************************************************)
TrimExt(n) == SubSeq(n, 1, Len(n) - Len(Ext(n)))

\* C7, as stated: Name is the filename with only its trailing extension
\* taken off, then title-cased, then with the hyphens taken out; it holds
\* no hyphen.
C7_Claim ==
    pc = "named" =>
        /\ name = RemoveHyphens(Title(TrimExt(fname)))
        /\ "-" \notin Range(name)

====
